---- MODULE Spec2Model ----
(***************************************************************************)
(* The symbolic tracer of torchdynamo/symbolic_convert.py as a state       *)
(* machine: convert_frame offers one frame to an InstructionTracer, which  *)
(* wraps the frame's locals, steps through the instruction stream with one *)
(* handler per opcode, and on RETURN_VALUE rewrites the stream.            *)
(*                                                                         *)
(* The instruction stream is an input.  The instruction at a position is   *)
(* drawn from the frame's repertoire the first time step() fetches that    *)
(* position and is recorded in `instructions`, so a position fetched again *)
(* after a jump holds the same instruction; positions never fetched stay   *)
(* Undecoded (any instruction with a handler), except one position where   *)
(* the frame may hold an opcode that has no handler.                       *)
(***************************************************************************)
EXTENDS Naturals, Sequences, FiniteSets, TLC

(* ------------------------------ bounds -------------------------------- *)
\* number of positions of the instruction stream
MaxLen == 5
\* number of step() calls explored in one trace
MaxSteps == 5
\* operand stack depth explored
MaxStack == 4

(* --------------------------- host values ------------------------------ *)
\* A concrete object of the host program: its type, its truth value, the
\* names it holds (a tuple of strings, or the dotted path of a callable),
\* whether the allow-list accepts it (its class, for a module), and the
\* `training` attribute of a module.
HV(type, truthy, names, allowed, training) ==
    [type |-> type, truthy |-> truthy, names |-> names,
     allowed |-> allowed, training |-> training]

Tensor == HV("Tensor", TRUE, <<>>, FALSE, "None")
PyTrue == HV("bool", TRUE, <<>>, FALSE, "None")
PyFalse == HV("bool", FALSE, <<>>, FALSE, "None")
PyNone == HV("NoneType", FALSE, <<>>, FALSE, "None")
PyInt == HV("int", TRUE, <<>>, FALSE, "None")
PyStr(s) == HV("str", TRUE, <<s>>, FALSE, "None")
PyTuple(names) == HV("tuple", names # <<>>, names, FALSE, "None")
Module(allowed, training) == HV("Module", TRUE, <<>>, allowed, training)
Callable(path) == HV("callable", TRUE, path, TRUE, "None")
Helper == HV("function", TRUE, <<"helper">>, FALSE, "None")
GraphModuleForward == HV("method", TRUE, <<"forward">>, FALSE, "None")
NoValue == HV("", FALSE, <<>>, FALSE, "None")

\* isinstance(value, torch.Tensor), isinstance(value, torch.nn.Module)
IsTensor(v) == v.type = "Tensor"
IsModule(v) == v.type = "Module"

\* allowed_functions.is_allowed, for a global value or a module's class
is_allowed(v) == v.allowed

\* getattr on a host object; HasAttr is whether it succeeds
HasAttr(v, name) ==
    \/ IsModule(v) /\ name \in {"weight", "sub", "training"}
    \/ v.type = "callable" /\ name \in {"add", "sub"}

GetAttr(v, name) ==
    IF IsModule(v)
    THEN CASE name = "weight" -> Tensor
           [] name = "sub" -> Module(TRUE, v.training)
           [] OTHER -> IF v.training = "True" THEN PyTrue ELSE PyFalse
    ELSE Callable(Append(v.names, name))

(* ------------------------------ guards -------------------------------- *)
Guard(name, source, requirement) ==
    [name |-> name, source |-> source, requirement |-> requirement]

(* -------------------------- symbolic values --------------------------- *)
\* One record shape for every VariableTracker class; a class leaves the
\* fields it does not have at their defaults.
VT(cls, state, guards, proxy, key, value, name, items, keys) ==
    [cls |-> cls, state |-> state, guards |-> guards, proxy |-> proxy,
     key |-> key, value |-> value, name |-> name, items |-> items,
     keys |-> keys]

TensorVariable(proxy, state, guards) ==
    VT("TensorVariable", state, guards, proxy, <<>>, NoValue, "", <<>>, <<>>)
NNModuleVariable(key, state, guards) ==
    VT("NNModuleVariable", state, guards, 0, key, NoValue, "", <<>>, <<>>)
ConstantVariable(value, state, guards) ==
    VT("ConstantVariable", state, guards, 0, <<>>, value, "", <<>>, <<>>)
AllowedFunctionOrModuleVariable(value, state, guards) ==
    VT("AllowedFunctionOrModuleVariable", state, guards, 0, <<>>, value, "",
       <<>>, <<>>)
GetAttrVariable(obj, name, state, guards) ==
    VT("GetAttrVariable", state, guards, 0, <<>>, NoValue, name, <<obj>>, <<>>)
\* ListVariable, TupleVariable and SliceVariable
SequenceVariable(cls, items, state, guards) ==
    VT(cls, state, guards, 0, <<>>, NoValue, "", items, <<>>)
ConstDictVariable(keys, items, state, guards) ==
    VT("ConstDictVariable", state, guards, 0, <<>>, NoValue, "", items, keys)
\* the bare None that LOAD_METHOD pushes: not a VariableTracker
BareNone == VT("None", "UNKNOWN", {}, 0, <<>>, NoValue, "", <<>>, <<>>)

IsVariableTracker(v) == v.cls # "None"
IsListVariable(v) == v.cls \in {"ListVariable", "TupleVariable", "SliceVariable"}


\* TracingSupported.combine over the inputs' states: one NO input makes the
\* result NO, otherwise one YES input makes it YES
CombineState(vars) ==
    IF \E i \in 1..Len(vars) : vars[i].state = "NO" THEN "NO"
    ELSE IF \E i \in 1..Len(vars) : vars[i].state = "YES" THEN "YES"
    ELSE "UNKNOWN"

UnionGuardsDropFirst(vars) ==
    UNION {vars[i].guards : i \in 2..Len(vars)}

\* VariableTracker.propagate: the options of a derived value are the
\* combined state (CombineState) and the union of the inputs' guards
UnionGuards(vars) ==
    UNION {vars[i].guards : i \in 1..Len(vars)}

\* propagate asserts that every input is a VariableTracker
PropagateOk(vars) == \A i \in 1..Len(vars) : IsVariableTracker(vars[i])

\* VariableTracker.combine_type as stack_op uses it: the operands' common
\* class, TensorVariable only when every operand is one
combine_type(inputs) ==
    IF \A i \in 1..Len(inputs) : inputs[i].cls = "TensorVariable"
    THEN "TensorVariable"
    ELSE inputs[CHOOSE i \in 1..Len(inputs) :
            /\ inputs[i].cls # "TensorVariable"
            /\ \A j \in 1..(i - 1) : inputs[j].cls = "TensorVariable"].cls

(* ------------------------------- graph -------------------------------- *)
\* An argument of a graph node: a reference to a node, a literal, or a list
Arg(kind, id, const, elems) ==
    [kind |-> kind, id |-> id, const |-> const, elems |-> elems]

RECURSIVE CanProxy(_)
\* whether v.as_proxy() returns: "ok", or the failure it raises
CanProxy(v) ==
    CASE v.cls \in {"TensorVariable", "ConstantVariable"} -> "ok"
      [] IsListVariable(v) \/ v.cls = "ConstDictVariable" ->
           IF \A i \in 1..Len(v.items) : CanProxy(v.items[i]) = "ok"
           THEN "ok"
           ELSE CanProxy(v.items[CHOOSE i \in 1..Len(v.items) :
                    /\ CanProxy(v.items[i]) # "ok"
                    /\ \A j \in 1..(i - 1) : CanProxy(v.items[j]) = "ok"])
      [] v.cls = "None" -> "Exception"
      [] OTHER -> "Unsupported"

RECURSIVE as_proxy(_)
as_proxy(v) ==
    CASE v.cls = "TensorVariable" -> Arg("node", v.proxy, NoValue, <<>>)
      [] v.cls = "ConstantVariable" -> Arg("const", 0, v.value, <<>>)
      [] OTHER -> Arg("list", 0, NoValue,
                      [i \in 1..Len(v.items) |-> as_proxy(v.items[i])])

ProxyAll(vars) == [i \in 1..Len(vars) |-> as_proxy(vars[i])]

\* the first failure among vars[i].as_proxy(), "ok" when there is none
CanProxyAll(vars) ==
    IF \A i \in 1..Len(vars) : CanProxy(vars[i]) = "ok" THEN "ok"
    ELSE CanProxy(vars[CHOOSE i \in 1..Len(vars) :
             /\ CanProxy(vars[i]) # "ok"
             /\ \A j \in 1..(i - 1) : CanProxy(vars[j]) = "ok"])

Node(id, op, target, args, kwkeys, kwargs) ==
    [id |-> id, op |-> op, target |-> target, args |-> args,
     kwkeys |-> kwkeys, kwargs |-> kwargs]

\* f'{name}_{n}'
Mangle(name, n) == name \o "_" \o ToString(n)

NumPlaceholders(g) == Cardinality({i \in 1..Len(g) : g[i].op = "placeholder"})

\* the position after the last placeholder of g (0: the very front)
LastPlaceholder(g) ==
    IF \E i \in 1..Len(g) : g[i].op = "placeholder"
    THEN CHOOSE i \in 1..Len(g) :
            /\ g[i].op = "placeholder"
            /\ \A j \in (i + 1)..Len(g) : g[j].op # "placeholder"
    ELSE 0

InsertAt(g, pos, n) ==
    [i \in 1..(Len(g) + 1) |->
        IF i <= pos THEN g[i] ELSE IF i = pos + 1 THEN n ELSE g[i - 1]]

create_graph_input_front(g, name, n) ==
    InsertAt(g, 0, Node(Len(g) + 1, "placeholder", <<Mangle(name, n)>>,
                        <<>>, <<>>, <<>>))

\* create_graph_input: a placeholder right after the last placeholder; its
\* node id is Len(g) + 1, as for every node created
create_graph_input(g, name, n) ==
    InsertAt(g, LastPlaceholder(g),
             Node(Len(g) + 1, "placeholder", <<Mangle(name, n)>>,
                  <<>>, <<>>, <<>>))

\* create_proxy / create_node at the default insertion point, the end
create_proxy(g, op, target, args, kwkeys, kwargs) ==
    Append(g, Node(Len(g) + 1, op, target, args, kwkeys, kwargs))

count_calls(g) ==
    Cardinality({i \in 1..Len(g) :
        g[i].op \in {"call_function", "call_method", "call_module"}})

(* --------------------------- instructions ----------------------------- *)
\* Instruction: opname and its decoded argument (a name, a count or jump
\* target position, or a constant)
Inst(opname, name, n, const) ==
    [opname |-> opname, name |-> name, n |-> n, const |-> const]

Op(opname) == Inst(opname, "", 0, NoValue)
OpName(opname, name) == Inst(opname, name, 0, NoValue)
OpN(opname, n) == Inst(opname, "", n, NoValue)

Undecoded == Op("?")
\* an opcode InstructionTracer has no method for
NoHandler == Op("GET_ITER")

Positions == 0..(MaxLen - 1)

UnaryOps == {"UNARY_POSITIVE", "UNARY_NEGATIVE", "UNARY_NOT", "UNARY_INVERT"}
BinaryOps == {"BINARY_POWER", "BINARY_MULTIPLY", "BINARY_MATRIX_MULTIPLY",
              "BINARY_FLOOR_DIVIDE", "BINARY_TRUE_DIVIDE", "BINARY_MODULO",
              "BINARY_ADD", "BINARY_SUBTRACT", "BINARY_SUBSCR",
              "BINARY_LSHIFT", "BINARY_RSHIFT", "BINARY_AND", "BINARY_XOR",
              "BINARY_OR"}

\* The instructions a frame's stream is drawn from, by family of frame.
Repertoire(family) ==
    CASE family = "arith" ->
           {OpName("LOAD_FAST", "x"), OpName("LOAD_FAST", "y"),
            OpName("STORE_FAST", "z"), Inst("LOAD_CONST", "", 0, PyInt),
            Op("UNARY_NEGATIVE"), Op("UNARY_NOT"), Op("BINARY_ADD"),
            Op("RETURN_VALUE")}
      [] family = "branch" ->
           {OpName("LOAD_FAST", "x"), OpName("LOAD_FAST", "flag"),
            Inst("LOAD_CONST", "", 0, PyFalse), Op("UNARY_NEGATIVE"),
            Op("RETURN_VALUE")}
           \cup {OpN("POP_JUMP_IF_FALSE", t) : t \in Positions}
      [] family = "shuffle" ->
           {OpName("LOAD_FAST", "x"), OpName("LOAD_FAST", "flag"),
            Op("NOP"), Op("POP_TOP"),
            Op("ROT_TWO"), Op("DUP_TOP"), Op("DUP_TOP_TWO"),
            Op("RETURN_VALUE")}
      [] family = "rotate" ->
           {OpName("LOAD_FAST", "x"), OpName("LOAD_FAST", "y"),
            OpName("LOAD_FAST", "flag"), OpName("LOAD_FAST", "m"),
            Op("ROT_THREE"), Op("ROT_FOUR"), Op("RETURN_VALUE")}
      [] family = "call" ->
           {OpName("LOAD_GLOBAL", "torch"), OpName("LOAD_GLOBAL", "helper"),
            OpName("LOAD_GLOBAL", "gt"), OpName("LOAD_GLOBAL", "len"),
            OpName("LOAD_FAST", "x"), OpName("LOAD_FAST", "flag"),
            OpName("LOAD_ATTR", "add"),
            OpN("CALL_FUNCTION", 1), OpN("CALL_FUNCTION", 2),
            Op("RETURN_VALUE")}
      [] family = "module" ->
           {OpName("LOAD_FAST", "m"), OpName("LOAD_FAST", "x"),
            OpName("LOAD_ATTR", "weight"), OpName("LOAD_ATTR", "sub"),
            OpName("LOAD_ATTR", "training"),
            OpN("CALL_FUNCTION", 0), OpN("CALL_FUNCTION", 1),
            Op("BINARY_ADD"), Op("RETURN_VALUE")}
      [] family = "method" ->
           {OpName("LOAD_FAST", "x"), OpName("LOAD_FAST", "m"),
            OpName("LOAD_METHOD", "add"), OpName("LOAD_ATTR", "add"),
            OpN("CALL_METHOD", 0), OpN("CALL_METHOD", 1),
            OpN("CALL_FUNCTION", 1), Op("RETURN_VALUE")}
      [] family = "keyword" ->
           {OpName("LOAD_GLOBAL", "torch"), OpName("LOAD_FAST", "m"),
            OpName("LOAD_FAST", "x"),
            Inst("LOAD_CONST", "", 0, PyTuple(<<"k">>)),
            Inst("LOAD_CONST", "", 0, PyInt),
            OpN("CALL_FUNCTION_KW", 1), OpN("CALL_FUNCTION_KW", 2),
            Op("RETURN_VALUE")}
      [] family = "unpacked" ->
           {OpName("LOAD_GLOBAL", "torch"), OpName("LOAD_FAST", "x"),
            OpN("BUILD_TUPLE", 0), OpN("BUILD_TUPLE", 1),
            OpN("BUILD_MAP", 0),
            OpN("CALL_FUNCTION_EX", 0), OpN("CALL_FUNCTION_EX", 1),
            OpN("CALL_FUNCTION_EX", 2), Op("RETURN_VALUE")}
      [] family = "mapping" ->
           {OpName("LOAD_FAST", "x"), OpName("LOAD_FAST", "m"),
            Inst("LOAD_CONST", "", 0, PyStr("k")),
            Inst("LOAD_CONST", "", 0, PyTuple(<<"k">>)),
            OpN("BUILD_MAP", 1), OpN("BUILD_CONST_KEY_MAP", 1),
            OpN("BUILD_CONST_KEY_MAP", 2), Op("RETURN_VALUE")}
      [] OTHER ->
           {OpName("LOAD_FAST", "x"), OpName("LOAD_FAST", "y"),
            OpN("BUILD_LIST", 0), OpN("BUILD_LIST", 1), OpN("BUILD_LIST", 3),
            OpN("BUILD_TUPLE", 2), OpN("BUILD_SLICE", 2),
            OpN("UNPACK_SEQUENCE", 1), OpN("UNPACK_SEQUENCE", 2),
            Op("BINARY_SUBSCR"), Op("RETURN_VALUE")}

Families == {"arith", "branch", "shuffle", "rotate", "call", "module",
             "method", "keyword", "unpacked", "mapping", "container"}

(* ------------------------------- state -------------------------------- *)
VARIABLES
    family,               \* which Repertoire the frame's stream is drawn from
    f_code,               \* frame.f_code: filename, stream, names, stack size
    f_locals,             \* frame.f_locals: name -> host value
    f_globals,            \* frame.f_globals: name -> host value
    instructions,         \* tracer.instructions, the list transform() is given
    code_options,         \* tracer.code_options
    stack,                \* tracer.stack, top at the end
    symbolic_locals,      \* tracer.symbolic_locals: name -> symbolic value
    instruction_pointer,  \* tracer.instruction_pointer
    cnt,                  \* tracer.cnt, the next value of itertools.count()
    graphargs,            \* tracer.graphargs: names captured as LocalArg
    nn_modules,           \* tracer.nn_modules: key -> host module
    guards,               \* tracer.guards
    graph,                \* tracer.graph: the nodes in graph order
    pc,                   \* "frame", "run", "returned" or "done"
    raised,               \* what the trace raised: "", "Unsupported", "Exception"
    result,               \* the GuardedCode convert_frame returns
    calls,                \* how many times convert_frame has been called
    path,                 \* history: the positions step() has fetched
    seen,                 \* history: the tracer's state at each fetch
    consumed              \* history: values popped by a jump or by RETURN

frameVars == <<family, f_locals>>
tracerVars == <<instructions, code_options, stack, symbolic_locals,
                instruction_pointer, cnt, graphargs, nn_modules, guards, graph>>
vars == <<family, f_code, f_locals, f_globals, instructions, code_options,
          stack, symbolic_locals, instruction_pointer, cnt, graphargs,
          nn_modules, guards, graph, pc, raised, result, calls, path, seen, consumed>>

\* GuardedCode(code, guards); guards defaults to the empty set
GuardedCode(code, gs) == [code |-> code, guards |-> gs]

NoCode == [co_filename |-> "", co_code |-> <<>>, co_varnames |-> <<>>,
           co_names |-> <<>>, co_stacksize |-> 0]
NoResult == GuardedCode(NoCode, {})

EmptyMap == [k \in {} |-> NoValue]

\* filenames of code the graph compiler generated
GeneratedNames == {"<eval_with_key>", "<eval_with_key>.1"}

IsGenerated_exact_name(code) == code.co_filename = "<eval_with_key>"

\* code.co_filename.startswith("<eval_with_key>")
IsGenerated(code) == code.co_filename \in GeneratedNames

(* ------------------------------- frames ------------------------------- *)
\* f_locals of the frames offered
LocalsTrue ==
    [x |-> Tensor, y |-> Tensor, flag |-> PyTrue, m |-> Module(TRUE, "True")]
LocalsFalse ==
    [x |-> Tensor, y |-> Tensor, flag |-> PyFalse, m |-> Module(FALSE, "False")]
LocalsTwoModules ==
    [x |-> Tensor, y |-> Tensor, flag |-> PyNone,
     m |-> Module(TRUE, "True"), n |-> Module(TRUE, "False")]
\* k is a free variable of the code: bound in f_locals, not in co_varnames
LocalsFreeVar == [x |-> Tensor, y |-> Tensor, k |-> PyInt]
LocalsInt == [x |-> Tensor, y |-> PyInt, flag |-> PyTrue]
LocalsFunction == [m |-> Module(TRUE, "True"), u |-> Helper]
\* no array among the locals: nothing to capture
LocalsNoArray == [m |-> Module(TRUE, "True"), flag |-> PyTrue]

LocalTables == {LocalsTrue, LocalsFalse, LocalsTwoModules, LocalsInt,
                LocalsFunction}

\* co_varnames of the frames offered
VarNames == <<"x", "y", "flag", "m", "n", "u", "z">>
VarNamesOtherOrder == <<"y", "z", "m", "flag", "x", "u", "n">>

Globals == [torch |-> Callable(<<"torch">>), helper |-> Helper, gt |-> Tensor]

Builtins == {"len", "print"}

CoNames == <<"torch", "helper", "gt", "len", "add", "weight", "sub", "training">>

Frame(fam, locals, varnames, filename, planted) ==
    [family |-> fam, locals |-> locals, varnames |-> varnames,
     filename |-> filename, planted |-> planted]

\* The frames offered to convert_frame.  planted is the position of the one
\* instruction that has no handler, MaxLen when the stream has none.
Frames ==
    { Frame(fam, t, VarNames, "model.py", MaxLen) :
        fam \in Families, t \in LocalTables }
    \cup { Frame(fam, t, VarNamesOtherOrder, "model.py", MaxLen) :
        fam \in {"arith", "module"}, t \in {LocalsTrue, LocalsTwoModules} }
    \cup { Frame(fam, LocalsFreeVar, VarNames, "model.py", MaxLen) :
        fam \in {"arith", "branch"} }
    \cup { Frame(fam, LocalsNoArray, VarNames, "model.py", MaxLen) :
        fam \in {"module"} }
    \cup { Frame(fam, t, VarNames, "model.py", p) :
        fam \in Families, t \in {LocalsTrue, LocalsFunction},
        p \in Positions }
    \cup { Frame(fam, t, VarNames, fn, p) :
        fam \in {"arith", "call"}, t \in {LocalsTrue, LocalsInt},
        fn \in GeneratedNames, p \in {0, MaxLen} }

Init ==
    /\ \E fr \in Frames :
         /\ family = fr.family
         /\ f_locals = fr.locals
         /\ f_code = [co_filename |-> fr.filename,
                      co_code |-> [i \in 1..MaxLen |->
                                     IF i = fr.planted + 1 THEN NoHandler
                                     ELSE Undecoded],
                      co_varnames |-> fr.varnames,
                      co_names |-> CoNames,
                      co_stacksize |-> MaxStack]
    /\ f_globals = Globals
    /\ instructions = <<>>
    /\ code_options = [co_names |-> <<>>, co_varnames |-> <<>>,
                       co_stacksize |-> 0]
    /\ stack = <<>>
    /\ symbolic_locals = [k \in {} |-> BareNone]
    /\ instruction_pointer = 0
    /\ cnt = 0
    /\ graphargs = <<>>
    /\ nn_modules = EmptyMap
    /\ guards = {}
    /\ graph = <<>>
    /\ pc = "frame"
    /\ raised = ""
    /\ result = NoResult
    /\ calls = 0
    /\ path = <<>>
    /\ seen = <<>>
    /\ consumed = <<>>

(* --------------------------- convert_frame ---------------------------- *)
convert_frame_except_keeps_guards(code) == GuardedCode(code, guards)

\* convert_frame's except clauses: NotImplementedError passes, any other
\* Exception is logged; both return GuardedCode(frame.f_code)
convert_frame_except(code) == GuardedCode(code, {})

\* convert_frame_assert on generated code: GuardedCode(code), no tracer
SkipGenerated ==
    /\ pc = "frame"
    /\ IsGenerated(f_code)
    /\ pc' = "done"
    /\ result' = GuardedCode(f_code, {})
    /\ calls' = calls + 1
    /\ UNCHANGED <<frameVars, f_code, f_globals, tracerVars, raised, path, seen,
                   consumed>>

\* convert_frame is offered the code it returned for a generated frame
Reoffer ==
    /\ pc = "done"
    /\ IsGenerated(f_code)
    /\ calls < 2
    /\ pc' = "frame"
    /\ f_code' = result.code
    /\ result' = NoResult
    /\ UNCHANGED <<frameVars, f_globals, tracerVars, raised, calls, path, seen,
                   consumed>>

(* ----------------------- InstructionTracer.__init__ ------------------- *)
\* The tracer fields wrap_local changes, threaded through the loop over
\* co_varnames; ok is FALSE once wrap_local has raised.
WrapStart ==
    [ok |-> TRUE, graphargs |-> <<>>, graph |-> <<>>, cnt |-> 0,
     nn_modules |-> EmptyMap, symbolic_locals |-> [k \in {} |-> BareNone]]

wrap_local_any(acc, name, value) ==
    IF IsTensor(value)
    THEN [acc EXCEPT
            !.graphargs = Append(@, name),
            !.graph = create_graph_input(acc.graph, name, acc.cnt),
            !.cnt = @ + 1,
            !.symbolic_locals = (name :> TensorVariable(Len(acc.graph) + 1,
                "YES", {Guard(name, "LOCAL", "TYPE_MATCH")})) @@ @]
    ELSE IF IsModule(value)
    THEN [acc EXCEPT
            !.nn_modules = (Mangle(name, acc.cnt) :> value) @@ @,
            !.cnt = @ + 1,
            !.symbolic_locals = (name :> NNModuleVariable(
                <<Mangle(name, acc.cnt)>>, "YES",
                {Guard(name, "LOCAL", "VALUE_MATCH")})) @@ @]
    ELSE [acc EXCEPT
            !.symbolic_locals = (name :> ConstantVariable(value, "UNKNOWN",
                {Guard(name, "LOCAL", "VALUE_MATCH")})) @@ @]

wrap_local_type_only(acc, name, value) ==
    IF IsTensor(value) \/ IsModule(value)
    THEN wrap_local_any(acc, name, value)
    ELSE IF value \in {PyTrue, PyFalse, PyNone}
    THEN [acc EXCEPT
            !.symbolic_locals = (name :> ConstantVariable(value, "UNKNOWN",
                {Guard(name, "LOCAL", "TYPE_MATCH")})) @@ @]
    ELSE [acc EXCEPT !.ok = FALSE]

\* wrap_local: a tensor becomes a graph input, a module is registered under
\* a fresh key, True/False/None become constants, anything else raises
wrap_local(acc, name, value) ==
    IF IsTensor(value)
    THEN [acc EXCEPT
            !.graphargs = Append(@, name),
            !.graph = create_graph_input(acc.graph, name, acc.cnt),
            !.cnt = @ + 1,
            !.symbolic_locals = (name :> TensorVariable(Len(acc.graph) + 1,
                "YES", {Guard(name, "LOCAL", "TYPE_MATCH")})) @@ @]
    ELSE IF IsModule(value)
    THEN [acc EXCEPT
            !.nn_modules = (Mangle(name, acc.cnt) :> value) @@ @,
            !.cnt = @ + 1,
            !.symbolic_locals = (name :> NNModuleVariable(
                <<Mangle(name, acc.cnt)>>, "YES",
                {Guard(name, "LOCAL", "VALUE_MATCH")})) @@ @]
    ELSE IF value \in {PyTrue, PyFalse, PyNone}
    THEN [acc EXCEPT
            !.symbolic_locals = (name :> ConstantVariable(value, "UNKNOWN",
                {Guard(name, "LOCAL", "VALUE_MATCH")})) @@ @]
    ELSE [acc EXCEPT !.ok = FALSE]

RECURSIVE WrapLocals(_, _, _, _)
\* the dict comprehension of __init__: wrap_local for each name of
\* co_varnames, in that order, that f_locals binds
WrapLocals(varnames, locals, i, acc) ==
    IF i > Len(varnames) \/ ~acc.ok THEN acc
    ELSE IF varnames[i] \in DOMAIN locals
    THEN WrapLocals(varnames, locals, i + 1,
                    wrap_local(acc, varnames[i], locals[varnames[i]]))
    ELSE WrapLocals(varnames, locals, i + 1, acc)

\* convert_frame_assert up to the end of InstructionTracer.__init__:
\* transform_code_object hands transform() the decoded instructions and the
\* code options; the tracer wraps the locals.  When wrap_local raises,
\* convert_frame returns the frame's code.
InstructionTracer_init ==
    /\ pc = "frame"
    /\ ~IsGenerated(f_code)
    /\ calls' = calls + 1
    /\ LET acc == WrapLocals(f_code.co_varnames, f_locals, 1, WrapStart) IN
       IF acc.ok
       THEN /\ instructions' = f_code.co_code
            /\ code_options' = [co_names |-> f_code.co_names,
                                co_varnames |-> f_code.co_varnames,
                                co_stacksize |-> f_code.co_stacksize]
            /\ stack' = <<>>
            /\ instruction_pointer' = 0
            /\ guards' = {}
            /\ graphargs' = acc.graphargs
            /\ graph' = acc.graph
            /\ cnt' = acc.cnt
            /\ nn_modules' = acc.nn_modules
            /\ symbolic_locals' = acc.symbolic_locals
            /\ pc' = "run"
            /\ UNCHANGED <<raised, result>>
       ELSE /\ pc' = "done"
            /\ raised' = "Unsupported"
            /\ result' = convert_frame_except(f_code)
            /\ UNCHANGED tracerVars
    /\ UNCHANGED <<frameVars, f_code, f_globals, path, seen, consumed>>

(* ------------------------------- step() ------------------------------- *)
Fetched_after_return ==
    IF pc \in {"run", "returned"} /\ Len(path) < MaxSteps
                  /\ instruction_pointer < Len(instructions)
    THEN IF instructions[instruction_pointer + 1] = Undecoded
         THEN Repertoire(family)
         ELSE {instructions[instruction_pointer + 1]}
    ELSE {}

\* The instruction step() fetches: the one recorded at the pointer, or, the
\* first time the position is fetched, any instruction of the repertoire.
Fetched ==
    IF pc = "run" /\ Len(path) < MaxSteps
                  /\ instruction_pointer < Len(instructions)
    THEN IF instructions[instruction_pointer + 1] = Undecoded
         THEN Repertoire(family)
         ELSE {instructions[instruction_pointer + 1]}
    ELSE {}

Decoded(inst) == [instructions EXCEPT ![instruction_pointer + 1] = inst]

\* everything of the tracer that decides what step() does next, apart from
\* the instruction list
Configuration ==
    <<instruction_pointer, stack, symbolic_locals, cnt, graphargs,
      nn_modules, guards, graph, f_globals, code_options>>

\* what every step() does whatever the handler: the fetch (recorded in the
\* frame's stream too, which the tracer's list still equals) and the history
Stepped(inst) ==
    /\ f_code' = [f_code EXCEPT !.co_code = Decoded(inst)]
    /\ path' = Append(path, instruction_pointer)
    /\ seen' = Append(seen, Configuration)
    /\ UNCHANGED <<frameVars, calls>>

\* the handler returns and run() goes on
Goes(inst, ip, stk, locs, g, gds, cons) ==
    /\ Len(stk) <= MaxStack
    /\ Stepped(inst)
    /\ instructions' = Decoded(inst)
    /\ instruction_pointer' = ip
    /\ stack' = stk
    /\ symbolic_locals' = locs
    /\ graph' = g
    /\ guards' = gds
    /\ consumed' = cons
    /\ UNCHANGED <<f_globals, code_options, cnt, graphargs, nn_modules, pc,
                   raised, result>>

\* the handler raises: the exception leaves run(), transform() and
\* convert_frame_assert, and convert_frame returns the frame's code
Raises(inst, kind, stk, g, gds, cons) ==
    /\ Stepped(inst)
    /\ instructions' = Decoded(inst)
    /\ instruction_pointer' = instruction_pointer + 1
    /\ stack' = stk
    /\ graph' = g
    /\ guards' = gds
    /\ consumed' = cons
    /\ pc' = "done"
    /\ raised' = kind
    /\ result' = convert_frame_except(f_code')
    /\ UNCHANGED <<f_globals, code_options, symbolic_locals, cnt, graphargs,
                   nn_modules>>

\* a handler that only changes the stack
Pushes(inst, stk) ==
    Goes(inst, instruction_pointer + 1, stk, symbolic_locals, graph, guards,
         consumed)

\* a handler that raises before it changed anything but the stack
Fails(inst, kind, stk) == Raises(inst, kind, stk, graph, guards, consumed)

\* IndexError: pop from an empty list, after the pops that succeeded
Underflow(inst) == Fails(inst, "Exception", <<>>)

Top(stk) == stk[Len(stk)]
\* the stack after n pops, and popn(n): the n popped items, deepest first
PopN(stk, n) == SubSeq(stk, 1, Len(stk) - n)
popn_reversed(stk, n) == [i \in 1..n |-> stk[Len(stk) - i + 1]]
popn(stk, n) == SubSeq(stk, Len(stk) - n + 1, Len(stk))

StepMissingSkipped ==
    \E inst \in Fetched :
        /\ inst = NoHandler
        /\ Pushes(inst, stack)

\* step() on an opcode the tracer has no method for
StepMissing ==
    \E inst \in Fetched :
        /\ inst = NoHandler
        /\ Fails(inst, "Unsupported", stack)

\* step() with the pointer past the end of the list: IndexError
StepPastEnd ==
    /\ pc = "run"
    /\ instruction_pointer >= Len(instructions)
    /\ pc' = "done"
    /\ raised' = "Exception"
    /\ result' = convert_frame_except(f_code)
    /\ UNCHANGED <<frameVars, f_code, f_globals, tracerVars, calls, path, seen,
                   consumed>>

LOAD_FAST ==
    \E inst \in Fetched :
        /\ inst.opname = "LOAD_FAST"
        /\ IF inst.name \in DOMAIN symbolic_locals
           THEN Pushes(inst, Append(stack, symbolic_locals[inst.name]))
           ELSE Fails(inst, "Exception", stack)

STORE_FAST ==
    \E inst \in Fetched :
        /\ inst.opname = "STORE_FAST"
        /\ IF stack = <<>>
           THEN Underflow(inst)
           ELSE Goes(inst, instruction_pointer + 1, PopN(stack, 1),
                     (inst.name :> Top(stack)) @@ symbolic_locals,
                     graph, guards, consumed)

LOAD_CONST ==
    \E inst \in Fetched :
        /\ inst.opname = "LOAD_CONST"
        /\ Pushes(inst, Append(stack,
                                ConstantVariable(inst.const, "UNKNOWN", {})))

\* LOAD_GLOBAL and load_builtin
LOAD_GLOBAL ==
    \E inst \in Fetched :
        /\ inst.opname = "LOAD_GLOBAL"
        /\ IF inst.name \notin DOMAIN f_globals
           THEN IF inst.name \in Builtins
                THEN Fails(inst, "Unsupported", stack)
                ELSE Fails(inst, "Exception", stack)
           ELSE IF is_allowed(f_globals[inst.name])
           THEN Pushes(inst, Append(stack, AllowedFunctionOrModuleVariable(
                    f_globals[inst.name], "YES",
                    {Guard(inst.name, "GLOBAL", "FUNCTION_MATCH")})))
           ELSE IF IsTensor(f_globals[inst.name])
           THEN Fails(inst, "Exception", stack)
           ELSE Fails(inst, "Unsupported", stack)

POP_JUMP_IF_FALSE_without_update ==
    \E inst \in Fetched :
        /\ inst.opname = "POP_JUMP_IF_FALSE"
        /\ IF stack = <<>>
           THEN Underflow(inst)
           ELSE LET value == Top(stack)
                    cons == Append(consumed,
                                   [opname |-> inst.opname, value |-> value])
                IN
                IF ~IsVariableTracker(value)
                THEN Fails(inst, "Exception", PopN(stack, 1))
                ELSE IF value.cls = "ConstantVariable"
                THEN Goes(inst,
                          IF ~value.value.truthy THEN inst.n
                          ELSE instruction_pointer + 1,
                          PopN(stack, 1), symbolic_locals, graph,
                          guards, cons)
                ELSE Raises(inst, "Unsupported", PopN(stack, 1), graph,
                            guards, cons)

POP_JUMP_IF_FALSE_inverted ==
    \E inst \in Fetched :
        /\ inst.opname = "POP_JUMP_IF_FALSE"
        /\ IF stack = <<>>
           THEN Underflow(inst)
           ELSE LET value == Top(stack)
                    cons == Append(consumed,
                                   [opname |-> inst.opname, value |-> value])
                IN
                IF ~IsVariableTracker(value)
                THEN Fails(inst, "Exception", PopN(stack, 1))
                ELSE IF value.cls = "ConstantVariable"
                THEN Goes(inst,
                          IF value.value.truthy THEN inst.n
                          ELSE instruction_pointer + 1,
                          PopN(stack, 1), symbolic_locals, graph,
                          guards \cup value.guards, cons)
                ELSE Raises(inst, "Unsupported", PopN(stack, 1), graph,
                            guards \cup value.guards, cons)

\* POP_JUMP_IF_FALSE and jump
POP_JUMP_IF_FALSE ==
    \E inst \in Fetched :
        /\ inst.opname = "POP_JUMP_IF_FALSE"
        /\ IF stack = <<>>
           THEN Underflow(inst)
           ELSE LET value == Top(stack)
                    cons == Append(consumed,
                                   [opname |-> inst.opname, value |-> value])
                IN
                IF ~IsVariableTracker(value)
                THEN Fails(inst, "Exception", PopN(stack, 1))
                ELSE IF value.cls = "ConstantVariable"
                THEN Goes(inst,
                          IF ~value.value.truthy THEN inst.n
                          ELSE instruction_pointer + 1,
                          PopN(stack, 1), symbolic_locals, graph,
                          guards \cup value.guards, cons)
                ELSE Raises(inst, "Unsupported", PopN(stack, 1), graph,
                            guards \cup value.guards, cons)

\* stack_op: the handler of every UNARY_* and BINARY_* opcode.  fn applied
\* to the operands' proxies appends one call_function node; `not tos` on a
\* proxy raises instead (a proxy has no truth value).
stack_op(inst, nargs) ==
    IF Len(stack) < nargs
    THEN Underflow(inst)
    ELSE LET inputs == popn(stack, nargs)
             rest == PopN(stack, nargs)
         IN
         IF ~PropagateOk(inputs)
         THEN Fails(inst, "Exception", rest)
         ELSE IF combine_type(inputs) # "TensorVariable"
         THEN Fails(inst, "Unsupported", rest)
         ELSE IF inst.opname = "UNARY_NOT"
         THEN Fails(inst, "Exception", rest)
         ELSE Goes(inst, instruction_pointer + 1,
                   Append(rest, TensorVariable(Len(graph) + 1,
                                               CombineState(inputs),
                                               UnionGuards(inputs))),
                   symbolic_locals,
                   create_proxy(graph, "call_function",
                                <<"operator", inst.opname>>,
                                ProxyAll(inputs), <<>>, <<>>),
                   guards, consumed)

UNARY ==
    \E inst \in Fetched :
        /\ inst.opname \in UnaryOps
        /\ stack_op(inst, 1)

BINARY ==
    \E inst \in Fetched :
        /\ inst.opname \in BinaryOps
        /\ stack_op(inst, 2)

(* --------------------------- stack shuffles --------------------------- *)
NOP ==
    \E inst \in Fetched :
        /\ inst.opname = "NOP"
        /\ Pushes(inst, stack)

POP_TOP ==
    \E inst \in Fetched :
        /\ inst.opname = "POP_TOP"
        /\ IF stack = <<>> THEN Underflow(inst)
           ELSE Pushes(inst, PopN(stack, 1))

Rotate_upward(stk, n) ==
    PopN(stk, n) \o SubSeq(stk, Len(stk) - n + 2, Len(stk))
                \o <<stk[Len(stk) - n + 1]>>

\* ROT_TWO, ROT_THREE, ROT_FOUR: the top item goes below the n - 1 under it
Rotate(stk, n) ==
    PopN(stk, n) \o <<Top(stk)>> \o SubSeq(stk, Len(stk) - n + 1, Len(stk) - 1)

ROT ==
    \E inst \in Fetched :
        /\ inst.opname \in {"ROT_TWO", "ROT_THREE", "ROT_FOUR"}
        /\ LET n == CASE inst.opname = "ROT_TWO" -> 2
                      [] inst.opname = "ROT_THREE" -> 3
                      [] OTHER -> 4
           IN IF Len(stack) < n THEN Underflow(inst)
              ELSE Pushes(inst, Rotate(stack, n))

DUP_TOP ==
    \E inst \in Fetched :
        /\ inst.opname = "DUP_TOP"
        /\ IF stack = <<>> THEN Underflow(inst)
           ELSE Pushes(inst, Append(stack, Top(stack)))

DUP_TOP_TWO ==
    \E inst \in Fetched :
        /\ inst.opname = "DUP_TOP_TWO"
        /\ IF Len(stack) < 2 THEN Underflow(inst)
           ELSE Pushes(inst, stack \o popn(stack, 2))

(* ---------------------------- RETURN_VALUE ---------------------------- *)
\* FakeRootModule.__init__ asserts that the registered modules agree on
\* `training`
FakeRootModuleOk(mods) ==
    \A k1, k2 \in DOMAIN mods :
        \/ "None" \in {mods[k1].training, mods[k2].training}
        \/ mods[k1].training = mods[k2].training

\* bytecode_transformation.unique_id: a name no binding uses yet
unique_id(name, taken) ==
    Mangle(name, CHOOSE k \in 0..Cardinality(taken) :
                    /\ Mangle(name, k) \notin taken
                    /\ \A j \in 0..(k - 1) : Mangle(name, j) \in taken)

\* 0-based list.index
IndexOf(seq, name) == (CHOOSE i \in 1..Len(seq) : seq[i] = name) - 1

create_load_fast_one_based(options, name) ==
    Inst("LOAD_FAST", name, IndexOf(options.co_varnames, name) + 1, NoValue)

\* create_load_fast, create_load_global
create_load_fast(options, name) ==
    Inst("LOAD_FAST", name, IndexOf(options.co_varnames, name), NoValue)
create_load_global(options, name) ==
    Inst("LOAD_GLOBAL", name, IndexOf(options.co_names, name), NoValue)

InSeq(seq, name) == \E i \in 1..Len(seq) : seq[i] = name

Rewritten_reversed(options, name, args) ==
    <<create_load_global(options, name)>>
    \o [i \in 1..Len(args) |->
          create_load_fast(options, args[Len(args) - i + 1])]
    \o <<OpN("CALL_FUNCTION", Len(args)), Op("RETURN_VALUE")>>

StackSizeHint_without_callable(args) == Len(args)

\* code_options["co_stacksize"] = len(self.graphargs) + 1
StackSizeHint(args) == Len(args) + 1

\* the instructions RETURN_VALUE replaces the stream with
Rewritten(options, name, args) ==
    <<create_load_global(options, name)>>
    \o [i \in 1..Len(args) |-> create_load_fast(options, args[i])]
    \o <<OpN("CALL_FUNCTION", Len(args)), Op("RETURN_VALUE")>>

RETURN_VALUE_binds_before_check ==
    \E inst \in Fetched :
        /\ inst.opname = "RETURN_VALUE"
        /\ IF stack = <<>>
           THEN Underflow(inst)
           ELSE LET rv == Top(stack)
                    rest == PopN(stack, 1)
                    cons == Append(consumed,
                                   [opname |-> inst.opname, value |-> rv])
                    out == create_proxy(graph, "output", <<"output">>,
                                        <<as_proxy(rv)>>, <<>>, <<>>)
                    name == unique_id("__translated_fn", DOMAIN f_globals)
                    options == [code_options EXCEPT
                                  !.co_names = Append(@, name),
                                  !.co_stacksize = StackSizeHint(graphargs)]
                IN
                IF ~IsVariableTracker(rv)
                THEN Fails(inst, "Exception", rest)
                ELSE IF rv.state # "YES"
                THEN Raises(inst, "Unsupported", rest, graph, guards, cons)
                ELSE IF rv.cls # "TensorVariable"
                THEN Raises(inst, "Unsupported", rest, graph, guards, cons)
                ELSE IF ~FakeRootModuleOk(nn_modules)
                THEN /\ Stepped(inst)
                     /\ instructions' = Decoded(inst)
                     /\ instruction_pointer' = instruction_pointer + 1
                     /\ stack' = rest
                     /\ graph' = out
                     /\ guards' = guards \cup rv.guards
                     /\ consumed' = cons
                     /\ f_globals' = (name :> GraphModuleForward) @@ f_globals
                     /\ code_options' = options
                     /\ pc' = "done"
                     /\ raised' = "Exception"
                     /\ result' = convert_frame_except(f_code')
                     /\ UNCHANGED <<symbolic_locals, cnt, graphargs,
                                    nn_modules>>
                ELSE IF \E i \in 1..Len(graphargs) :
                           ~InSeq(options.co_varnames, graphargs[i])
                THEN \* create_load_fast's assertion fails after the
                     \* callable was bound and the options were written
                     /\ Stepped(inst)
                     /\ instructions' = Decoded(inst)
                     /\ instruction_pointer' = instruction_pointer + 1
                     /\ stack' = rest
                     /\ graph' = out
                     /\ guards' = guards \cup rv.guards
                     /\ consumed' = cons
                     /\ f_globals' = (name :> GraphModuleForward) @@ f_globals
                     /\ code_options' = options
                     /\ pc' = "done"
                     /\ raised' = "Exception"
                     /\ result' = convert_frame_except(f_code')
                     /\ UNCHANGED <<symbolic_locals, cnt, graphargs,
                                    nn_modules>>
                ELSE /\ Stepped(inst)
                     /\ instruction_pointer' = instruction_pointer + 1
                     /\ stack' = rest
                     /\ graph' = out
                     /\ guards' = guards \cup rv.guards
                     /\ consumed' = cons
                     /\ f_globals' = (name :> GraphModuleForward) @@ f_globals
                     /\ code_options' = options
                     /\ instructions' = Rewritten(options, name, graphargs)
                     /\ pc' = "returned"
                     /\ UNCHANGED <<symbolic_locals, cnt, graphargs,
                                    nn_modules, raised, result>>

RETURN_VALUE ==
    \E inst \in Fetched :
        /\ inst.opname = "RETURN_VALUE"
        /\ IF stack = <<>>
           THEN Underflow(inst)
           ELSE LET rv == Top(stack)
                    rest == PopN(stack, 1)
                    cons == Append(consumed,
                                   [opname |-> inst.opname, value |-> rv])
                    out == create_proxy(graph, "output", <<"output">>,
                                        <<as_proxy(rv)>>, <<>>, <<>>)
                    name == unique_id("__translated_fn", DOMAIN f_globals)
                    options == [code_options EXCEPT
                                  !.co_names = Append(@, name),
                                  !.co_stacksize = StackSizeHint(graphargs)]
                IN
                IF ~IsVariableTracker(rv)
                THEN Fails(inst, "Exception", rest)
                ELSE IF rv.state # "YES"
                THEN Raises(inst, "Unsupported", rest, graph, guards, cons)
                ELSE IF rv.cls # "TensorVariable"
                THEN Raises(inst, "Unsupported", rest, graph, guards, cons)
                ELSE IF ~FakeRootModuleOk(nn_modules)
                THEN Raises(inst, "Exception", rest, out,
                            guards \cup rv.guards, cons)
                ELSE IF \E i \in 1..Len(graphargs) :
                           ~InSeq(options.co_varnames, graphargs[i])
                THEN \* create_load_fast's assertion fails after the
                     \* callable was bound and the options were written
                     /\ Stepped(inst)
                     /\ instructions' = Decoded(inst)
                     /\ instruction_pointer' = instruction_pointer + 1
                     /\ stack' = rest
                     /\ graph' = out
                     /\ guards' = guards \cup rv.guards
                     /\ consumed' = cons
                     /\ f_globals' = (name :> GraphModuleForward) @@ f_globals
                     /\ code_options' = options
                     /\ pc' = "done"
                     /\ raised' = "Exception"
                     /\ result' = convert_frame_except(f_code')
                     /\ UNCHANGED <<symbolic_locals, cnt, graphargs,
                                    nn_modules>>
                ELSE /\ Stepped(inst)
                     /\ instruction_pointer' = instruction_pointer + 1
                     /\ stack' = rest
                     /\ graph' = out
                     /\ guards' = guards \cup rv.guards
                     /\ consumed' = cons
                     /\ f_globals' = (name :> GraphModuleForward) @@ f_globals
                     /\ code_options' = options
                     /\ instructions' = Rewritten(options, name, graphargs)
                     /\ pc' = "returned"
                     /\ UNCHANGED <<symbolic_locals, cnt, graphargs,
                                    nn_modules, raised, result>>

convert_frame_assert_return_without_guards ==
    /\ pc = "returned"
    /\ pc' = "done"
    /\ result' = GuardedCode([f_code EXCEPT
                                !.co_code = instructions,
                                !.co_names = code_options.co_names,
                                !.co_stacksize = code_options.co_stacksize],
                             {})
    /\ UNCHANGED <<frameVars, f_code, f_globals, tracerVars, raised, calls,
                   path, seen, consumed>>

\* run() has ended and transform() returns: transform_code_object builds
\* the new code from the instruction list and the code options, and
\* convert_frame_assert returns it with the tracer's guards
convert_frame_assert_return ==
    /\ pc = "returned"
    /\ pc' = "done"
    /\ result' = GuardedCode([f_code EXCEPT
                                !.co_code = instructions,
                                !.co_names = code_options.co_names,
                                !.co_stacksize = code_options.co_stacksize],
                             guards)
    /\ UNCHANGED <<frameVars, f_code, f_globals, tracerVars, raised, calls,
                   path, seen, consumed>>

(* ------------------------- attributes and calls ----------------------- *)
RECURSIVE get_submodule(_, _)
get_submodule(mods, key) ==
    IF Len(key) = 1 THEN mods[key[1]]
    ELSE GetAttr(get_submodule(mods, SubSeq(key, 1, Len(key) - 1)),
                 key[Len(key)])

RECURSIVE SubmoduleOk(_, _)
\* get_submodule(key) raises no KeyError and no AttributeError
SubmoduleOk(mods, key) ==
    IF key = <<>> THEN FALSE
    ELSE IF Len(key) = 1 THEN key[1] \in DOMAIN mods
    ELSE /\ SubmoduleOk(mods, SubSeq(key, 1, Len(key) - 1))
         /\ HasAttr(get_submodule(mods, SubSeq(key, 1, Len(key) - 1)),
                    key[Len(key)])

\* LOAD_ATTR; LOAD_METHOD is LOAD_ATTR followed by push(None)
LoadAttr(inst, extra) ==
    IF stack = <<>>
    THEN Underflow(inst)
    ELSE LET obj == Top(stack)
             rest == PopN(stack, 1)
             key == Append(obj.key, inst.name)
         IN
         IF ~IsVariableTracker(obj)
         THEN Fails(inst, "Exception", rest)
         ELSE IF obj.cls = "NNModuleVariable"
         THEN IF ~SubmoduleOk(nn_modules, key)
              THEN Fails(inst, "Exception", rest)
              ELSE IF IsTensor(get_submodule(nn_modules, key))
              THEN Goes(inst, instruction_pointer + 1,
                        Append(rest, TensorVariable(Len(graph) + 1, obj.state,
                                                    obj.guards)) \o extra,
                        symbolic_locals,
                        create_proxy(graph, "get_attr", key, <<>>, <<>>, <<>>),
                        guards, consumed)
              ELSE IF IsModule(get_submodule(nn_modules, key))
              THEN Pushes(inst, Append(rest, NNModuleVariable(key, obj.state,
                                                              obj.guards))
                                \o extra)
              ELSE Fails(inst, "Unsupported", rest)
         ELSE IF obj.cls = "TensorVariable"
         THEN Pushes(inst, Append(rest, GetAttrVariable(obj, inst.name,
                                                        obj.state, obj.guards))
                           \o extra)
         ELSE IF obj.cls = "AllowedFunctionOrModuleVariable"
         THEN IF ~HasAttr(obj.value, inst.name)
              THEN Fails(inst, "Exception", rest)
              ELSE Pushes(inst, Append(rest, AllowedFunctionOrModuleVariable(
                              GetAttr(obj.value, inst.name), obj.state,
                              obj.guards)) \o extra)
         ELSE Fails(inst, "Unsupported", rest)

LOAD_ATTR ==
    \E inst \in Fetched :
        /\ inst.opname = "LOAD_ATTR"
        /\ LoadAttr(inst, <<>>)

LOAD_METHOD ==
    \E inst \in Fetched :
        /\ inst.opname = "LOAD_METHOD"
        /\ LoadAttr(inst, <<BareNone>>)

\* what call_function pushes and appends once the target and the values
\* that reach the node (args, kwargs) and the options (from) are known
Emit(inst, rest, op, target, from, args, kwkeys, kwvals) ==
    IF ~PropagateOk(from)
    THEN Fails(inst, "Exception", rest)
    ELSE IF CanProxyAll(args \o kwvals) # "ok"
    THEN Fails(inst, CanProxyAll(args \o kwvals), rest)
    ELSE Goes(inst, instruction_pointer + 1,
              Append(rest, TensorVariable(Len(graph) + 1, CombineState(from),
                                          UnionGuards(from))),
              symbolic_locals,
              create_proxy(graph, op, target, ProxyAll(args), kwkeys,
                           ProxyAll(kwvals)),
              guards, consumed)

call_function_drops_target_guards(inst, rest, fn, args, kwkeys, kwvals) ==
    IF fn.cls = "AllowedFunctionOrModuleVariable"
    THEN Emit(inst, rest, "call_function", fn.value.names,
              args \o kwvals, args, kwkeys, kwvals)
    ELSE IF fn.cls = "GetAttrVariable"
    THEN Emit(inst, rest, "call_method", <<fn.name>>,
              <<fn>> \o fn.items \o args \o kwvals, fn.items \o args,
              kwkeys, kwvals)
    ELSE IF fn.cls = "NNModuleVariable"
    THEN IF ~SubmoduleOk(nn_modules, fn.key)
         THEN Fails(inst, "Exception", rest)
         ELSE IF is_allowed(get_submodule(nn_modules, fn.key))
         THEN Emit(inst, rest, "call_module", fn.key, args, args,
                   <<>>, <<>>)
         ELSE Fails(inst, "Unsupported", rest)
    ELSE Fails(inst, "Unsupported", rest)

\* InstructionTracer.call_function(fn, args, kwargs); rest is the stack
\* after the call instruction's pops
call_function(inst, rest, fn, args, kwkeys, kwvals) ==
    IF fn.cls = "AllowedFunctionOrModuleVariable"
    THEN Emit(inst, rest, "call_function", fn.value.names,
              <<fn>> \o args \o kwvals, args, kwkeys, kwvals)
    ELSE IF fn.cls = "GetAttrVariable"
    THEN Emit(inst, rest, "call_method", <<fn.name>>,
              <<fn>> \o fn.items \o args \o kwvals, fn.items \o args,
              kwkeys, kwvals)
    ELSE IF fn.cls = "NNModuleVariable"
    THEN IF ~SubmoduleOk(nn_modules, fn.key)
         THEN Fails(inst, "Exception", rest)
         ELSE IF is_allowed(get_submodule(nn_modules, fn.key))
         THEN Emit(inst, rest, "call_module", fn.key, <<fn>> \o args, args,
                   <<>>, <<>>)
         ELSE Fails(inst, "Unsupported", rest)
    ELSE Fails(inst, "Unsupported", rest)

CALL_FUNCTION ==
    \E inst \in Fetched :
        /\ inst.opname = "CALL_FUNCTION"
        /\ IF Len(stack) < inst.n + 1
           THEN Underflow(inst)
           ELSE call_function(inst, PopN(stack, inst.n + 1),
                              stack[Len(stack) - inst.n],
                              popn(stack, inst.n), <<>>, <<>>)

CALL_METHOD ==
    \E inst \in Fetched :
        /\ inst.opname = "CALL_METHOD"
        /\ IF Len(stack) < inst.n + 2
           THEN Underflow(inst)
           ELSE IF IsVariableTracker(stack[Len(stack) - inst.n])
           THEN Fails(inst, "Exception", PopN(stack, inst.n + 1))
           ELSE call_function(inst, PopN(stack, inst.n + 2),
                              stack[Len(stack) - inst.n - 1],
                              popn(stack, inst.n), <<>>, <<>>)

CALL_FUNCTION_EX ==
    \E inst \in Fetched :
        /\ inst.opname = "CALL_FUNCTION_EX"
        /\ IF inst.n \notin {0, 1}
           THEN Fails(inst, "Unsupported", stack)
           ELSE IF Len(stack) < inst.n + 2
           THEN Underflow(inst)
           ELSE LET kwargsvars == IF inst.n = 0
                                  THEN ConstDictVariable(<<>>, <<>>,
                                                         "UNKNOWN", {})
                                  ELSE Top(stack)
                    argsvars == stack[Len(stack) - inst.n]
                    fn == stack[Len(stack) - inst.n - 1]
                    rest == PopN(stack, inst.n + 2)
                IN
                IF ~IsListVariable(argsvars)
                   \/ kwargsvars.cls # "ConstDictVariable"
                THEN Fails(inst, "Exception", rest)
                ELSE call_function(inst, rest, fn, argsvars.items,
                                   kwargsvars.keys, kwargsvars.items)

\* len(value) is defined for a tuple and for a str
HasLen(v) == v.type \in {"tuple", "str"}

CALL_FUNCTION_KW ==
    \E inst \in Fetched :
        /\ inst.opname = "CALL_FUNCTION_KW"
        /\ IF Len(stack) < inst.n + 2
           THEN Underflow(inst)
           ELSE LET argnames == Top(stack)
                    all == SubSeq(stack, Len(stack) - inst.n, Len(stack) - 1)
                    fn == stack[Len(stack) - inst.n - 1]
                    rest == PopN(stack, inst.n + 2)
                    names == argnames.value.names
                    k == Len(names)
                    \* args[:-k] and args[-k:]; -0 is 0
                    args == IF k = 0 \/ k > Len(all) THEN <<>>
                            ELSE SubSeq(all, 1, Len(all) - k)
                    kws == IF k = 0 \/ k > Len(all) THEN all
                           ELSE SubSeq(all, Len(all) - k + 1, Len(all))
                    \* dict(zip(argnames, kwargs))
                    n == IF k < Len(kws) THEN k ELSE Len(kws)
                IN
                IF argnames.cls # "ConstantVariable"
                THEN Fails(inst, "Exception", rest)
                ELSE IF ~HasLen(argnames.value)
                THEN Fails(inst, "Exception", rest)
                ELSE IF n # k
                THEN Fails(inst, "Exception", rest)
                ELSE call_function(inst, rest, fn, args,
                                   [i \in 1..n |-> PyStr(names[i])],
                                   SubSeq(kws, 1, n))

(* ----------------------------- containers ----------------------------- *)
\* BUILD_TUPLE, BUILD_LIST, BUILD_SLICE
BUILD_SEQUENCE ==
    \E inst \in Fetched :
        /\ inst.opname \in {"BUILD_TUPLE", "BUILD_LIST", "BUILD_SLICE"}
        /\ IF Len(stack) < inst.n
           THEN Underflow(inst)
           ELSE LET items == popn(stack, inst.n)
                    rest == PopN(stack, inst.n)
                    cls == CASE inst.opname = "BUILD_TUPLE" -> "TupleVariable"
                             [] inst.opname = "BUILD_LIST" -> "ListVariable"
                             [] OTHER -> "SliceVariable"
                IN
                IF ~PropagateOk(items)
                THEN Fails(inst, "Exception", rest)
                ELSE Pushes(inst, Append(rest,
                         SequenceVariable(cls, items, CombineState(items),
                                          UnionGuards(items))))

Evens(seq) == [i \in 1..(Len(seq) \div 2) |-> seq[2 * i]]
Odds(seq) == [i \in 1..(Len(seq) \div 2) |-> seq[2 * i - 1]]

BUILD_MAP ==
    \E inst \in Fetched :
        /\ inst.opname = "BUILD_MAP"
        /\ IF Len(stack) < 2 * inst.n
           THEN Underflow(inst)
           ELSE LET items == popn(stack, 2 * inst.n)
                    rest == PopN(stack, 2 * inst.n)
                    ks == Odds(items)
                IN
                IF ~PropagateOk(items)
                THEN Fails(inst, "Exception", rest)
                ELSE IF \E i \in 1..Len(ks) : ks[i].cls # "ConstantVariable"
                THEN Fails(inst, "Exception", rest)
                ELSE IF \E i, j \in 1..Len(ks) :
                           i # j /\ ks[i].value = ks[j].value
                THEN Fails(inst, "Exception", rest)
                ELSE Pushes(inst, Append(rest,
                         ConstDictVariable([i \in 1..Len(ks) |-> ks[i].value],
                                           Evens(items), CombineState(items),
                                           UnionGuards(items))))

BUILD_CONST_KEY_MAP ==
    \E inst \in Fetched :
        /\ inst.opname = "BUILD_CONST_KEY_MAP"
        /\ IF Len(stack) < inst.n + 1
           THEN Underflow(inst)
           ELSE LET keys == Top(stack)
                    values == SubSeq(stack, Len(stack) - inst.n, Len(stack) - 1)
                    rest == PopN(stack, inst.n + 1)
                IN
                IF ~PropagateOk(<<keys>> \o values)
                THEN Fails(inst, "Exception", rest)
                ELSE IF keys.cls # "ConstantVariable"
                THEN Fails(inst, "Exception", rest)
                ELSE IF keys.value.type # "tuple"
                THEN Fails(inst, "Exception", rest)
                ELSE IF Len(keys.value.names) # Len(values)
                THEN Fails(inst, "Exception", rest)
                ELSE Pushes(inst, Append(rest,
                         ConstDictVariable(
                             [i \in 1..Len(values) |->
                                 PyStr(keys.value.names[i])],
                             values, CombineState(<<keys>> \o values),
                             UnionGuards(<<keys>> \o values))))

Reverse(seq) == [i \in 1..Len(seq) |-> seq[Len(seq) - i + 1]]

UNPACK_SEQUENCE_truncating ==
    \E inst \in Fetched :
        /\ inst.opname = "UNPACK_SEQUENCE"
        /\ IF stack = <<>>
           THEN Underflow(inst)
           ELSE LET seq == Top(stack)
                    rest == PopN(stack, 1)
                IN
                IF ~IsListVariable(seq)
                THEN Fails(inst, "Unsupported", rest)
                ELSE IF Len(seq.items) < inst.n
                THEN Fails(inst, "Exception", rest)
                ELSE Pushes(inst, rest \o Reverse(SubSeq(seq.items, 1, inst.n)))

UNPACK_SEQUENCE ==
    \E inst \in Fetched :
        /\ inst.opname = "UNPACK_SEQUENCE"
        /\ IF stack = <<>>
           THEN Underflow(inst)
           ELSE LET seq == Top(stack)
                    rest == PopN(stack, 1)
                IN
                IF ~IsListVariable(seq)
                THEN Fails(inst, "Unsupported", rest)
                ELSE IF Len(seq.items) # inst.n
                THEN Fails(inst, "Exception", rest)
                ELSE Pushes(inst, rest \o Reverse(seq.items))

Next ==
    \/ SkipGenerated
    \/ Reoffer
    \/ InstructionTracer_init
    \/ StepMissing
    \/ StepPastEnd
    \/ LOAD_FAST
    \/ STORE_FAST
    \/ LOAD_CONST
    \/ LOAD_GLOBAL
    \/ POP_JUMP_IF_FALSE
    \/ UNARY
    \/ BINARY
    \/ NOP
    \/ POP_TOP
    \/ ROT
    \/ DUP_TOP
    \/ DUP_TOP_TWO
    \/ LOAD_ATTR
    \/ LOAD_METHOD
    \/ CALL_FUNCTION
    \/ CALL_METHOD
    \/ CALL_FUNCTION_EX
    \/ CALL_FUNCTION_KW
    \/ BUILD_SEQUENCE
    \/ BUILD_MAP
    \/ BUILD_CONST_KEY_MAP
    \/ UNPACK_SEQUENCE
    \/ RETURN_VALUE
    \/ convert_frame_assert_return

Spec == Init /\ [][Next]_vars

(* ------------------------------ properties ---------------------------- *)
\* the trace ran to RETURN_VALUE and convert_frame returned the new code
Success == pc = "done" /\ raised = "" /\ path # <<>>

\* the instruction of the frame's stream that the i-th step() fetched
FetchedAt(i) == f_code.co_code[path[i] + 1]

\* C1: whenever the trace raises (the Unsupported signal or any other
\* exception), convert_frame still returns, and what it returns is the
\* frame's own code with an empty guard set
C1_AbortReturnsOriginal ==
    /\ raised # "" => pc = "done" /\ result = GuardedCode(f_code, {})
    /\ pc = "done" => result # NoResult

\* a trace that had collected guards at a jump and then raised an exception
\* other than Unsupported
C1_Witness ==
    /\ pc = "done"
    /\ raised = "Exception"
    /\ guards # {}
    /\ result.guards = {}

\* C2 as stated: a stream that holds exactly one opcode without a handler,
\* at whatever position, ends with the original code and no guards
C2_AnyPositionAborts ==
    (/\ pc = "done"
     /\ ~IsGenerated(f_code)
     /\ Cardinality({i \in 1..Len(f_code.co_code) :
                        f_code.co_code[i] = NoHandler}) = 1)
    => raised # "" /\ result = GuardedCode(f_code, {})

\* C2 amended: an opcode without a handler that step() fetches ends the
\* trace at that step with Unsupported, and convert_frame returns the
\* original code with an empty guard set; it is never stepped over
C2_FetchedMissingAborts ==
    \A i \in 1..Len(path) :
        FetchedAt(i) = NoHandler =>
            /\ i = Len(path)
            /\ pc = "done"
            /\ raised = "Unsupported"
            /\ result = GuardedCode(f_code, {})

\* the opcode without a handler was fetched after other instructions ran
C2_Witness ==
    /\ Len(path) > 2
    /\ FetchedAt(Len(path)) = NoHandler
    /\ pc = "done"

RECURSIVE ArgRefs(_)
\* the node ids an argument refers to
ArgRefs(a) ==
    IF a.kind = "node" THEN {a.id}
    ELSE UNION {ArgRefs(a.elems[i]) : i \in 1..Len(a.elems)}

NodeById(id) == graph[CHOOSE i \in 1..Len(graph) : graph[i].id = id]

NodeRefs(n) ==
    UNION {ArgRefs(n.args[i]) : i \in 1..Len(n.args)}
    \cup UNION {ArgRefs(n.kwargs[i]) : i \in 1..Len(n.kwargs)}

RECURSIVE Reach(_)
\* the nodes reachable from node id through arguments
Reach(id) == {id} \cup UNION {Reach(j) : j \in NodeRefs(NodeById(id))}

FromOutput ==
    UNION {Reach(graph[i].id) : i \in {j \in 1..Len(graph) :
                                           graph[j].op = "output"}}

\* name_k for some k the counter has produced
MangledFrom(s, name) == \E k \in 0..cnt : s = Mangle(name, k)

\* the guards a node needs: on the local a placeholder was created for, on
\* the local whose module a call_module or get_attr reaches through the
\* registry, on the global a called function was loaded from
Required(n) ==
    CASE n.op = "placeholder" ->
           {Guard(name, "LOCAL", "TYPE_MATCH") :
               name \in {v \in DOMAIN f_locals : MangledFrom(n.target[1], v)}}
      [] n.op \in {"call_module", "get_attr"} ->
           {Guard(name, "LOCAL", "VALUE_MATCH") :
               name \in {v \in DOMAIN f_locals : MangledFrom(n.target[1], v)}}
      [] n.op = "call_function" /\ n.target[1] \in DOMAIN Globals ->
           {Guard(n.target[1], "GLOBAL", "FUNCTION_MATCH")}
      [] OTHER -> {}

\* C3: after a successful trace every node reachable from the output node
\* has, in the returned guard set, the guard of each binding it rests on,
\* with the requirement that binding was given when it entered the trace
C3_GuardSoundness ==
    Success => \A id \in FromOutput : Required(NodeById(id)) \subseteq result.guards

\* a successful trace whose output rests on a placeholder and on a global
\* callable
C3_Witness ==
    /\ Success
    /\ \E id \in FromOutput : NodeById(id).op = "placeholder"
    /\ \E id \in FromOutput :
         /\ NodeById(id).op = "call_function"
         /\ NodeById(id).target[1] \in DOMAIN Globals

ConsumedGuards == UNION {consumed[i].value.guards : i \in 1..Len(consumed)}

\* C4: the guard set a successful trace returns is exactly the union of the
\* guards of the value RETURN_VALUE popped and of the values the executed
\* conditional jumps popped
C4_GuardsAreConsumedGuards ==
    /\ pc = "returned" => guards = ConsumedGuards
    /\ Success => result.guards = ConsumedGuards

\* a successful trace through a jump that leaves the guard of a wrapped
\* local out of the returned guard set
C4_Witness ==
    /\ Success
    /\ \E i \in 1..Len(consumed) : consumed[i].opname = "POP_JUMP_IF_FALSE"
    /\ \E name \in DOMAIN symbolic_locals :
         ~(symbolic_locals[name].guards \subseteq result.guards)

\* the i-th step is a conditional jump on the boolean local `name`, loaded
\* by the step before it
JumpOnBoolLocal(i, name) ==
    /\ i > 1
    /\ FetchedAt(i).opname = "POP_JUMP_IF_FALSE"
    /\ FetchedAt(i - 1) = OpName("LOAD_FAST", name)
    /\ name \in DOMAIN f_locals
    /\ f_locals[name] \in {PyTrue, PyFalse}
    /\ \A j \in 1..(i - 1) : FetchedAt(j) # OpName("STORE_FAST", name)

\* C5: a successful trace that ran a conditional jump on a boolean local
\* returns the VALUE_MATCH guard on that local
C5_BranchGuardCaptured ==
    Success =>
        \A i \in 1..Len(path) : \A name \in DOMAIN f_locals :
            JumpOnBoolLocal(i, name) =>
                Guard(name, "LOCAL", "VALUE_MATCH") \in result.guards

\* a successful trace that took the jump on a false local and returned a
\* value that does not carry the local's guard
C5_Witness ==
    /\ Success
    /\ \E i \in 1..Len(path) : \E name \in DOMAIN f_locals :
         /\ JumpOnBoolLocal(i, name)
         /\ f_locals[name] = PyFalse
         /\ Guard(name, "LOCAL", "VALUE_MATCH")
               \notin consumed[Len(consumed)].value.guards

\* C6: graphargs and the placeholders stay in step: the placeholders are the
\* first nodes of the graph, in creation order, the i-th created for the
\* i-th captured name; and the rewritten stream loads them in that order
C6_ArgumentOrder ==
    /\ Len(graphargs) = NumPlaceholders(graph)
    /\ \A i \in 1..Len(graphargs) :
         /\ graph[i].op = "placeholder"
         /\ MangledFrom(graph[i].target[1], graphargs[i])
         /\ \A j \in 1..(i - 1) : graph[j].id < graph[i].id
    /\ Success =>
         /\ Len(result.code.co_code) = Len(graphargs) + 3
         /\ \A i \in 1..Len(graphargs) :
              /\ result.code.co_code[i + 1].opname = "LOAD_FAST"
              /\ MangledFrom(graph[i].target[1],
                             result.code.co_code[i + 1].name)

\* a successful trace with two captured arguments in a frame whose
\* co_varnames lists y before x
C6_Witness ==
    /\ Success
    /\ graphargs = <<"y", "x">>

\* the step taken is UNPACK_SEQUENCE on a container whose item count differs
\* from the instruction's count
UnpackMismatch ==
    /\ pc = "run"
    /\ path' = Append(path, instruction_pointer)
    /\ f_code'.co_code[instruction_pointer + 1].opname = "UNPACK_SEQUENCE"
    /\ stack # <<>>
    /\ IsListVariable(Top(stack))
    /\ Len(Top(stack).items) # f_code'.co_code[instruction_pointer + 1].n

\* C7 as stated: the arity mismatch raises the Unsupported signal
C7_MismatchIsUnsupported ==
    [][UnpackMismatch => raised' = "Unsupported"]_vars

\* C7 amended: the arity mismatch fails the handler's assertion, an
\* exception other than Unsupported; nothing is pushed, and convert_frame
\* returns the original code with an empty guard set
C7_MismatchFailsAssertion ==
    [][UnpackMismatch =>
          /\ raised' = "Exception"
          /\ pc' = "done"
          /\ stack' = PopN(stack, 1)
          /\ result' = GuardedCode(f_code', {})]_vars

\* a three-item list was unpacked into two targets
C7_Witness ==
    /\ pc = "done"
    /\ Len(path) = 5
    /\ FetchedAt(4) = OpN("BUILD_LIST", 3)
    /\ FetchedAt(5) = OpN("UNPACK_SEQUENCE", 2)
    /\ path[5] = path[4] + 1

Wrappable(v) == IsTensor(v) \/ IsModule(v) \/ v \in {PyTrue, PyFalse, PyNone}

\* the frame of `return x + y`: x and y are the array locals, any other
\* local is True, False, None or a sub-component, the sub-components agree on
\* their training mode, and the stream is load x, load y, add, return
ReturnXPlusY ==
    /\ pc = "done"
    /\ f_code.co_filename = "model.py"
    /\ {v \in DOMAIN f_locals : IsTensor(f_locals[v])} = {"x", "y"}
    /\ \A v \in DOMAIN f_locals : Wrappable(f_locals[v])
    /\ \A v, w \in DOMAIN f_locals :
         IsModule(f_locals[v]) /\ IsModule(f_locals[w])
            => f_locals[v].training = f_locals[w].training
    /\ f_code.co_varnames = VarNames
    /\ SubSeq(f_code.co_code, 1, 4) =
         <<OpName("LOAD_FAST", "x"), OpName("LOAD_FAST", "y"),
           Op("BINARY_ADD"), Op("RETURN_VALUE")>>

\* C8: `return x + y` traces to two placeholders, one call and one output;
\* the new stream loads the callable, x, y, calls with two arguments and
\* returns; the guards are the two TYPE_MATCH guards
C8_ReturnXPlusY ==
    ReturnXPlusY =>
        /\ raised = ""
        /\ [i \in 1..Len(graph) |-> graph[i].op] =
             <<"placeholder", "placeholder", "call_function", "output">>
        /\ [i \in 1..Len(result.code.co_code) |->
               <<result.code.co_code[i].opname, result.code.co_code[i].name,
                 result.code.co_code[i].n>>] =
             <<<<"LOAD_GLOBAL", "__translated_fn_0", Len(f_code.co_names)>>,
               <<"LOAD_FAST", "x", 0>>, <<"LOAD_FAST", "y", 1>>,
               <<"CALL_FUNCTION", "", 2>>, <<"RETURN_VALUE", "", 0>>>>
        /\ result.guards = {Guard("x", "LOCAL", "TYPE_MATCH"),
                            Guard("y", "LOCAL", "TYPE_MATCH")}

C8_Witness == ReturnXPlusY /\ path = <<0, 1, 2, 3>>

\* what C9 promises of a frame: the trace ended in __init__, before any
\* step, and convert_frame returned the original code without guards
AbortedAtInit ==
    /\ pc = "done"
    /\ raised = "Unsupported"
    /\ instruction_pointer = 0
    /\ path = <<>>
    /\ result = GuardedCode(f_code, {})

\* C9 as stated: any name bound in f_locals to an unsupported value aborts
\* the trace in __init__
C9_AnyBoundName ==
    (/\ pc # "frame"
     /\ ~IsGenerated(f_code)
     /\ \E v \in DOMAIN f_locals : ~Wrappable(f_locals[v]))
    => AbortedAtInit

\* C9 amended: a name of co_varnames bound in f_locals to an unsupported
\* value aborts the trace in __init__; names f_locals binds outside
\* co_varnames (free and cell variables) are not wrapped
C9_UnsupportedLocal ==
    (/\ pc # "frame"
     /\ f_code.co_filename = "model.py"
     /\ \E i \in 1..Len(f_code.co_varnames) :
          /\ f_code.co_varnames[i] \in DOMAIN f_locals
          /\ ~Wrappable(f_locals[f_code.co_varnames[i]]))
    => AbortedAtInit

\* the unsupported local is one the stream could not even have read first:
\* position 0 holds an opcode without a handler
C9_Witness ==
    /\ AbortedAtInit
    /\ "u" \in DOMAIN f_locals
    /\ f_code.co_code[1] = NoHandler

\* C10: for generated code no tracer is made and no step runs, the globals
\* stay as they were, and every call returns the code as it is, no guards
C10_GeneratedSkipped ==
    f_code.co_filename \in GeneratedNames =>
        /\ path = <<>>
        /\ tracerVars = <<<<>>, [co_names |-> <<>>, co_varnames |-> <<>>,
                                 co_stacksize |-> 0],
                          <<>>, [k \in {} |-> BareNone], 0, 0, <<>>,
                          EmptyMap, {}, <<>>>>
        /\ f_globals = Globals
        /\ raised = ""
        /\ pc = "done" => result = GuardedCode(f_code, {})

\* generated code with a numbered filename, offered twice
C10_Witness ==
    /\ f_code.co_filename = "<eval_with_key>.1"
    /\ pc = "done"
    /\ calls = 2

\* C11: convert_frame returns either the frame's code as it was, with no
\* guards, or a rewritten stream with at least one guard; a trace that
\* processed RETURN_VALUE successfully holds at least one guard
C11_TwoShapes ==
    /\ pc = "done" =>
         \/ result = GuardedCode(f_code, {})
         \/ /\ raised = ""
            /\ result.guards # {}
            /\ result.code.co_code # f_code.co_code
            /\ result.code.co_code = instructions
    /\ pc = "returned" => guards # {}
    /\ Success => result.guards # {} /\ result.code # f_code

\* a rewritten stream that captures no array, returned with the one guard
\* on the sub-component the returned value was read from
C11_Witness ==
    /\ Success
    /\ graphargs = <<>>
    /\ Cardinality(result.guards) = 1

\* C12: run() stops after finitely many steps.  step() is a function of the
\* tracer's configuration and the instructions already fetched, so a run
\* that stops never fetches twice in the same configuration.
C12_NoConfigurationTwice ==
    \A i, j \in 1..Len(seen) : i < j => seen[i] # seen[j]

OutputNodes == {i \in 1..Len(graph) : graph[i].op = "output"}

\* C13: a trace that raised, in __init__ or at any step, leaves the global
\* table, the instruction list, the name list and the stack-size hint as
\* they were, and convert_frame returns the frame's own code; a callable is
\* bound in the globals only by a trace that succeeds
C13_AbortLeavesHostUntouched ==
    /\ raised # "" =>
         /\ f_globals = Globals
         /\ result.code = f_code
         /\ f_code.co_names = CoNames
         /\ f_code.co_stacksize = MaxStack
         /\ instructions # <<>> =>
              /\ instructions = f_code.co_code
              /\ Len(instructions) = MaxLen
              /\ code_options = [co_names |-> f_code.co_names,
                                 co_varnames |-> f_code.co_varnames,
                                 co_stacksize |-> f_code.co_stacksize]
    /\ f_globals # Globals =>
         /\ raised = ""
         /\ pc \in {"returned", "done"}
         /\ OutputNodes # {}

\* the trace raised at RETURN_VALUE, after the output node was created
C13_Witness ==
    /\ raised = "Exception"
    /\ OutputNodes # {}
    /\ f_globals = Globals

LastConsumed == consumed[Len(consumed)]

\* RETURN_VALUE popped an array value whose state is YES
ReturnedSupportedArray ==
    /\ consumed # <<>>
    /\ LastConsumed.opname = "RETURN_VALUE"
    /\ LastConsumed.value.cls = "TensorVariable"
    /\ LastConsumed.value.state = "YES"

\* C14: the graph never holds two output nodes; it holds one exactly when
\* RETURN_VALUE has processed a fully supported array; and once the output
\* node is there no step runs and the graph no longer changes
C14_OneOutput ==
    /\ [](/\ Cardinality(OutputNodes) <= 1
          /\ OutputNodes # {} <=> ReturnedSupportedArray
          /\ OutputNodes # {} => pc \in {"returned", "done"})
    /\ [][OutputNodes # {} => path' = path /\ graph' = graph]_vars

\* the output node is the last node of the graph and run() has just ended
C14_Witness ==
    /\ pc = "returned"
    /\ OutputNodes = {Len(graph)}

\* C15: after a successful trace with N captured arguments the stream is
\* the load of the newly bound global, N argument loads, a call with N
\* positional arguments and a return; N is the number of placeholders; every
\* load names an entry of the code's name list or variable-name list
C15_RewrittenShape ==
    Success =>
        LET code == result.code.co_code
            N == NumPlaceholders(graph)
        IN
        /\ N = Len(graphargs)
        /\ Len(code) = N + 3
        /\ code[1].opname = "LOAD_GLOBAL"
        /\ code[1].name \notin DOMAIN Globals
        /\ code[1].name \in DOMAIN f_globals
        /\ f_globals[code[1].name] = GraphModuleForward
        /\ code[1].n + 1 \in 1..Len(result.code.co_names)
        /\ result.code.co_names[code[1].n + 1] = code[1].name
        /\ \A i \in 2..(N + 1) :
             /\ code[i].opname = "LOAD_FAST"
             /\ code[i].n + 1 \in 1..Len(result.code.co_varnames)
             /\ result.code.co_varnames[code[i].n + 1] = code[i].name
        /\ code[N + 2] = OpN("CALL_FUNCTION", N)
        /\ code[N + 3] = Op("RETURN_VALUE")

\* a five-step trace replaced by the five instructions for two arguments
C15_Witness ==
    /\ Success
    /\ Len(path) = 5
    /\ Len(result.code.co_code) = 5
    /\ f_code.co_varnames = VarNamesOtherOrder

\* the step taken is POP_JUMP_IF_FALSE with a condition on the stack
JumpStep ==
    /\ pc = "run"
    /\ path' = Append(path, instruction_pointer)
    /\ f_code'.co_code[instruction_pointer + 1].opname = "POP_JUMP_IF_FALSE"
    /\ stack # <<>>

\* C16: a conditional jump on a constant pops the condition and nothing
\* else, and sets the pointer to the target when the constant is falsy and
\* to the next position otherwise; on any other value the trace aborts;
\* each step fetches at the pointer, and nothing is fetched after an abort
C16_ConditionalJump ==
    /\ [][JumpStep =>
            IF Top(stack).cls = "ConstantVariable"
            THEN /\ pc' = "run"
                 /\ raised' = ""
                 /\ stack' = PopN(stack, 1)
                 /\ instruction_pointer' =
                      IF Top(stack).value.truthy
                      THEN instruction_pointer + 1
                      ELSE f_code'.co_code[instruction_pointer + 1].n
            ELSE /\ pc' = "done"
                 /\ raised' # ""]_vars
    /\ [][path' # path => path' = Append(path, instruction_pointer)]_vars
    /\ [][raised # "" => path' = path]_vars

\* a jump on a falsy constant went to a target that is not the next
\* position, and the instruction there was fetched
C16_Witness ==
    \E i \in 1..(Len(path) - 1) :
        /\ FetchedAt(i).opname = "POP_JUMP_IF_FALSE"
        /\ path[i + 1] = FetchedAt(i).n
        /\ path[i + 1] > path[i] + 1

\* the step taken is a UNARY_* (n = 1) or BINARY_* (n = 2) instruction with
\* its n operands on the stack
OperatorStep(n) ==
    /\ pc = "run"
    /\ path' = Append(path, instruction_pointer)
    /\ f_code'.co_code[instruction_pointer + 1].opname
          \in (IF n = 1 THEN UnaryOps ELSE BinaryOps)
    /\ Len(stack) >= n

\* the n topmost values, deepest first
Operands(n) == [i \in 1..n |-> stack[Len(stack) - n + i]]

\* C17: a unary or binary operator pops its operands; when all are arrays it
\* appends one call node whose arguments are the operands' nodes, deepest
\* first, and pushes an array with the union of the operands' guards; when
\* one is not an array the trace aborts and the graph is unchanged
C17_OperatorStep ==
    [][\A n \in {1, 2} :
         OperatorStep(n) =>
           IF \A i \in 1..n : Operands(n)[i].cls = "TensorVariable"
           THEN /\ pc' = "run"
                /\ Len(graph') = Len(graph) + 1
                /\ SubSeq(graph', 1, Len(graph)) = graph
                /\ graph'[Len(graph')].op = "call_function"
                /\ graph'[Len(graph')].args =
                     [i \in 1..n |->
                        Arg("node", Operands(n)[i].proxy, NoValue, <<>>)]
                /\ Len(stack') = Len(stack) - n + 1
                /\ SubSeq(stack', 1, Len(stack) - n) = PopN(stack, n)
                /\ Top(stack').cls = "TensorVariable"
                /\ Top(stack').proxy = graph'[Len(graph')].id
                /\ Top(stack').guards =
                     UNION {Operands(n)[i].guards : i \in 1..n}
           ELSE /\ pc' = "done"
                /\ raised' # ""
                /\ graph' = graph]_vars

\* the step taken is LOAD_GLOBAL of a name the globals bind to an array that
\* the allow-list does not accept
GlobalArrayStep ==
    /\ pc = "run"
    /\ path' = Append(path, instruction_pointer)
    /\ LET inst == f_code'.co_code[instruction_pointer + 1] IN
         /\ inst.opname = "LOAD_GLOBAL"
         /\ inst.name \in DOMAIN f_globals
         /\ IsTensor(f_globals[inst.name])
         /\ ~is_allowed(f_globals[inst.name])

\* C18: LOAD_GLOBAL of an array that is not allowed raises the Unsupported
\* signal, appends no capture descriptor, creates no placeholder, and
\* convert_frame returns the frame's code with no guards
C18_GlobalArrayUnsupported ==
    [][GlobalArrayStep =>
          /\ raised' = "Unsupported"
          /\ pc' = "done"
          /\ graphargs' = graphargs
          /\ graph' = graph
          /\ result' = GuardedCode(f_code', {})]_vars

ShuffleOps ==
    {"POP_TOP", "DUP_TOP", "DUP_TOP_TWO", "ROT_TWO", "ROT_THREE", "ROT_FOUR"}

\* how many items the shuffle names
Named(op) ==
    CASE op \in {"POP_TOP", "DUP_TOP"} -> 1
      [] op \in {"DUP_TOP_TWO", "ROT_TWO"} -> 2
      [] op = "ROT_THREE" -> 3
      [] OTHER -> 4

\* what the host stack machine leaves on stack s (top at the end)
HostShuffle(op, s) ==
    LET L == Len(s) IN
    CASE op = "POP_TOP" -> SubSeq(s, 1, L - 1)
      [] op = "DUP_TOP" -> s \o <<s[L]>>
      [] op = "DUP_TOP_TWO" -> s \o <<s[L - 1], s[L]>>
      [] op = "ROT_TWO" -> SubSeq(s, 1, L - 2) \o <<s[L], s[L - 1]>>
      [] op = "ROT_THREE" ->
           SubSeq(s, 1, L - 3) \o <<s[L], s[L - 2], s[L - 1]>>
      [] OTHER ->
           SubSeq(s, 1, L - 4) \o <<s[L], s[L - 3], s[L - 2], s[L - 1]>>

\* the step taken is the shuffle op with the items it names on the stack
ShuffleStep(op) ==
    /\ pc = "run"
    /\ path' = Append(path, instruction_pointer)
    /\ f_code'.co_code[instruction_pointer + 1].opname = op
    /\ Len(stack) >= Named(op)

\* C19: POP_TOP, DUP_TOP, DUP_TOP_TWO and ROT_TWO/THREE/FOUR leave the stack
\* the host machine would leave, the items below the named ones in place,
\* and change neither the locals, the guards, the graph nor the captures
C19_StackShuffles ==
    [][\A op \in ShuffleOps :
         ShuffleStep(op) =>
           /\ stack' = HostShuffle(op, stack)
           /\ instruction_pointer' = instruction_pointer + 1
           /\ pc' = "run"
           /\ UNCHANGED <<symbolic_locals, guards, graph, graphargs,
                          nn_modules, cnt, f_globals>>]_vars

\* ROT_FOUR has run on four different values
C19_Witness ==
    /\ pc = "run"
    /\ Len(path) = 5
    /\ FetchedAt(5) = Op("ROT_FOUR")
    /\ Cardinality({stack[i] : i \in 1..Len(stack)}) = 4

\* what an instruction of the rewritten stream does to the host's stack depth
StackEffect(inst) ==
    CASE inst.opname \in {"LOAD_GLOBAL", "LOAD_FAST"} -> 1
      [] inst.opname = "CALL_FUNCTION" -> 0 - inst.n
      [] inst.opname = "RETURN_VALUE" -> 0 - 1
      [] OTHER -> 0

RECURSIVE DepthAfter(_, _)
\* the host's stack depth after the first i instructions of code
DepthAfter(code, i) ==
    IF i = 0 THEN 0 ELSE DepthAfter(code, i - 1) + StackEffect(code[i])

MaxDepth(code) ==
    CHOOSE d \in {DepthAfter(code, i) : i \in 0..Len(code)} :
        \A i \in 0..Len(code) : DepthAfter(code, i) <= d

\* C20: the stack-size hint of the rewritten code is at least the greatest
\* depth the host reaches running the rewritten stream, which is the
\* callable plus the N captured arguments
C20_StackSizeCoversCall ==
    Success =>
        /\ MaxDepth(result.code.co_code) = Len(graphargs) + 1
        /\ result.code.co_stacksize >= MaxDepth(result.code.co_code)
        /\ \A i \in 0..Len(result.code.co_code) :
             DepthAfter(result.code.co_code, i) >= 0

\* a rewrite with no captured argument: the hint is 1, for the callable
C20_Witness ==
    /\ Success
    /\ NumPlaceholders(graph) = 0
    /\ result.code.co_stacksize = 1

\* the instruction the step taken fetches
CalledInst == f_code'.co_code[instruction_pointer + 1]

\* the callable of the call being stepped: below the arguments (and below
\* the names tuple or the keyword mapping, when the encoding has one)
CallTarget ==
    CASE CalledInst.opname = "CALL_FUNCTION" ->
             stack[Len(stack) - CalledInst.n]
      [] OTHER -> stack[Len(stack) - CalledInst.n - 1]

\* the names of the keyword arguments the traced program supplies
CallNames ==
    CASE CalledInst.opname = "CALL_FUNCTION_KW" ->
             [i \in 1..Len(Top(stack).value.names) |->
                 PyStr(Top(stack).value.names[i])]
      [] CalledInst.opname = "CALL_FUNCTION_EX" /\ CalledInst.n = 1 ->
             Top(stack).keys
      [] OTHER -> <<>>

\* the values of the keyword arguments, in the order of their names
CallKeywords ==
    CASE CalledInst.opname = "CALL_FUNCTION_KW" ->
             SubSeq(stack, Len(stack) - Len(CallNames), Len(stack) - 1)
      [] CalledInst.opname = "CALL_FUNCTION_EX" /\ CalledInst.n = 1 ->
             Top(stack).items
      [] OTHER -> <<>>

\* the positional arguments the traced program supplies
CallPositionals ==
    CASE CalledInst.opname = "CALL_FUNCTION" ->
             SubSeq(stack, Len(stack) - CalledInst.n + 1, Len(stack))
      [] CalledInst.opname = "CALL_FUNCTION_KW" ->
             SubSeq(stack, Len(stack) - CalledInst.n,
                    Len(stack) - 1 - Len(CallNames))
      [] OTHER -> stack[Len(stack) - CalledInst.n].items

\* the step taken is a call, in any of the three encodings, whose target is
\* of one of the three kinds and which does not abort
CallStep ==
    /\ pc = "run"
    /\ path' = Append(path, instruction_pointer)
    /\ pc' = "run"
    /\ CalledInst.opname
          \in {"CALL_FUNCTION", "CALL_FUNCTION_KW", "CALL_FUNCTION_EX"}
    /\ CallTarget.cls \in {"AllowedFunctionOrModuleVariable",
                           "GetAttrVariable", "NNModuleVariable"}

\* C21: a call that does not abort, whatever its encoding and its target's
\* kind, appends one node that holds every positional argument (after the
\* receiver, for a deferred attribute) and every keyword argument under its
\* name, and pushes a value whose guards include each keyword argument's
C21_ArgumentsKept ==
    [][CallStep =>
         /\ Len(graph') = Len(graph) + 1
         /\ graph'[Len(graph')].args =
              ProxyAll((IF CallTarget.cls = "GetAttrVariable"
                        THEN CallTarget.items ELSE <<>>) \o CallPositionals)
         /\ graph'[Len(graph')].kwkeys = CallNames
         /\ graph'[Len(graph')].kwargs = ProxyAll(CallKeywords)
         /\ \A i \in 1..Len(CallKeywords) :
              CallKeywords[i].guards \subseteq Top(stack').guards]_vars
====
